---- MODULE Spec2Model ----
(***************************************************************************)
(* Prim differ of MayaUsdUtils (DiffPrims.cpp): comparePrimsAttributes,    *)
(* comparePrimsRelationships, comparePrimsChildren and comparePrims,       *)
(* applied to two prim snapshots "modified" and "baseline".                *)
(***************************************************************************)
EXTENDS Integers, Sequences, FiniteSets, TLC

(***************************************************************************)
(* Bounds of the input universe.                                           *)
(***************************************************************************)
\* Total number of authored items (attributes, relationships, relationship
\* targets, child prims at any depth) of the two compared prims together.
MaxSize == 4
\* Largest number of entries of a map handed to the aggregator on its own.
MaxKeys == 3

AttrNames == {"color", "size"}
\* An attribute's authored value together with its metadata.
AttrValues == {"red", "blue"}
RelNames == {"material"}
Targets == {"/t1", "/t2"}
ChildNames == {"a", "b"}
\* Path of the compared root prims, as the sequence of its path elements.
RootPaths == {<<"A">>, <<"B">>}

(***************************************************************************)
(* DiffResult                                                              *)
(***************************************************************************)
Same == "Same"
Differ == "Differ"
Created == "Created"
Absent == "Absent"
\* The aggregate of a collection that is not uniformly Same and holds no
\* Differ.
Modified == "Modified"
DiffResults == {Same, Differ, Created, Absent, Modified}

\* A default-constructed UsdAttribute / UsdRelationship handle.
InvalidAttribute == [valid |-> FALSE, value |-> "none"]
InvalidRelationship == [valid |-> FALSE, targets |-> <<>>]

\* A default-constructed (invalid) UsdPrim: it has no path and enumerates
\* no attribute, relationship or child.
UsdPrim == [path |-> <<>>, valid |-> FALSE, attrs |-> <<>>, rels |-> <<>>,
            children |-> <<>>]

Range(f) == {f[x] : x \in DOMAIN f}

(***************************************************************************)
(* The bounded universe of prims.  A shape is a prim without its path.     *)
(***************************************************************************)
\* Target lists of a relationship: no target is listed twice.
TargetLists ==
    {s \in UNION {[1..n -> Targets] : n \in 0..Cardinality(Targets)} :
        \A i, j \in DOMAIN s : i # j => s[i] # s[j]}

AttrMaps == UNION {[S -> AttrValues] : S \in SUBSET AttrNames}
RelMaps == UNION {[S -> TargetLists] : S \in SUBSET RelNames}

RECURSIVE SumOver(_, _)
SumOver(f, S) ==
    IF S = {} THEN 0
    ELSE LET x == CHOOSE y \in S : TRUE IN f[x] + SumOver(f, S \ {x})

\* Number of authored items a prim's own attributes and relationships make.
OwnWeight(a, r) ==
    Cardinality(DOMAIN a) + SumOver([t \in DOMAIN r |-> 1 + Len(r[t])], DOMAIN r)

\* Attribute and relationship parts by weight.
OwnParts ==
    [w \in 0..(MaxSize + 1) |->
        {ar \in AttrMaps \X RelMaps : OwnWeight(ar[1], ar[2]) = w}]

RECURSIVE ShapesExact(_), ChildMapsExact(_, _)
\* The shapes of exactly n authored items.
ShapesExact(n) ==
    UNION {{[attrs |-> ar[1], rels |-> ar[2], children |-> c] :
                ar \in OwnParts[w], c \in ChildMapsExact(ChildNames, n - w)} :
           w \in 0..n}

\* The child maps over the given names whose children total exactly k items,
\* a child counting for one item more than its own content.
ChildMapsExact(names, k) ==
    IF names = {} THEN (IF k = 0 THEN {<<>>} ELSE {})
    ELSE LET x == CHOOSE y \in names : TRUE
             rest == names \ {x}
         IN  ChildMapsExact(rest, k)
             \cup UNION {{(x :> c) @@ r :
                              c \in ShapesExact(j - 1),
                              r \in ChildMapsExact(rest, k - j)} :
                         j \in 1..k}

ShapeTable == [n \in 0..MaxSize |-> ShapesExact(n)]

RECURSIVE AtPath(_, _)
\* The valid prim of the given shape at the given path; a child's path is
\* its parent's path extended by the child's name.
AtPath(shape, path) ==
    [path |-> path, valid |-> TRUE, attrs |-> shape.attrs, rels |-> shape.rels,
     children |-> [x \in DOMAIN shape.children |->
                      AtPath(shape.children[x], Append(path, x))]]

\* The prims of exactly n authored items; the invalid prim has none.
PrimsExact(n) ==
    {AtPath(s, p) : s \in ShapeTable[n], p \in RootPaths}
    \cup (IF n = 0 THEN {UsdPrim} ELSE {})

\* The pairs (modified, baseline) of at most MaxSize authored items in all.
InputPairs ==
    UNION {UNION {PrimsExact(i) \X PrimsExact(j) : j \in 0..(MaxSize - i)} :
           i \in 0..MaxSize}

(***************************************************************************)
(* Leaf comparators and the aggregator                                     *)
(***************************************************************************)
\* compareAttributes: both handles invalid give Same, one invalid handle
\* gives Created or Absent, two valid handles give Same when value and
\* metadata are equal and Differ otherwise.
compareAttributes(modifiedAttr, baselineAttr) ==
    IF ~modifiedAttr.valid /\ ~baselineAttr.valid THEN Same
    ELSE IF ~baselineAttr.valid THEN Created
    ELSE IF ~modifiedAttr.valid THEN Absent
    ELSE IF modifiedAttr.value = baselineAttr.value THEN Same
    ELSE Differ

\* The targets of a relationship handle; an invalid handle has none.
GetTargets(rel) == IF rel.valid THEN rel.targets ELSE <<>>

\* compareRelationships: a result per target path.  With one handle
\* invalid every target of the other is Created or Absent; two valid
\* handles with equal target lists give Same for every target, and target
\* lists that differ in order or membership give Differ.
compareRelationships(modifiedRel, baselineRel) ==
    LET mt == Range(GetTargets(modifiedRel))
        bt == Range(GetTargets(baselineRel))
    IN  [p \in mt \cup bt |->
            IF ~baselineRel.valid THEN Created
            ELSE IF ~modifiedRel.valid THEN Absent
            ELSE IF modifiedRel.targets = baselineRel.targets THEN Same
            ELSE Differ]

\* computeOverallResult with Same taking precedence over Differ.
computeOverallResult_SameFirst(results) ==
    IF \E k \in DOMAIN results : results[k] = Same THEN Same
    ELSE IF \E k \in DOMAIN results : results[k] = Differ THEN Differ
    ELSE IF DOMAIN results = {} THEN Same
    ELSE Modified

\* computeOverallResult: Differ dominates; an empty or uniformly Same
\* collection is Same; anything else is the non-conflicting aggregate.
computeOverallResult(results) ==
    IF \E k \in DOMAIN results : results[k] = Differ THEN Differ
    ELSE IF \A k \in DOMAIN results : results[k] = Same THEN Same
    ELSE Modified

(***************************************************************************)
(* DiffPrims.cpp                                                           *)
(***************************************************************************)
\* prim.GetAuthoredAttributes() and prim.GetAuthoredRelationships(), as the
\* map from name to handle the differ builds from them, and
\* prim.GetAllChildren().
GetAuthoredAttributes(prim) ==
    [name \in DOMAIN prim.attrs |-> [valid |-> TRUE, value |-> prim.attrs[name]]]
GetAuthoredRelationships(prim) ==
    [name \in DOMAIN prim.rels |-> [valid |-> TRUE, targets |-> prim.rels[name]]]
GetAllChildren(prim) == Range(prim.children)

\* std::map<SdfPath, UsdPrim> baselineChildren of comparePrimsChildren.
ChildrenByPath(prim) ==
    [p \in {c.path : c \in GetAllChildren(prim)} |->
        CHOOSE c \in GetAllChildren(prim) : c.path = p]

\* comparePrimsAttributes without its last loop over the baseline names.
comparePrimsAttributes_NoAbsent(modified_, baseline_) ==
    LET baselineAttrs == GetAuthoredAttributes(baseline_)
        modifiedAttrs == GetAuthoredAttributes(modified_)
    IN  [name \in DOMAIN modifiedAttrs |->
            IF name \notin DOMAIN baselineAttrs THEN Created
            ELSE compareAttributes(modifiedAttrs[name], baselineAttrs[name])]

\* comparePrimsAttributes comparing a found attribute with itself instead of
\* with the baseline's.
comparePrimsAttributes_SelfCompare(modified_, baseline_) ==
    LET baselineAttrs == GetAuthoredAttributes(baseline_)
        modifiedAttrs == GetAuthoredAttributes(modified_)
        compared ==
            [name \in DOMAIN modifiedAttrs |->
                IF name \notin DOMAIN baselineAttrs THEN Created
                ELSE compareAttributes(modifiedAttrs[name], modifiedAttrs[name])]
        absent == {name \in DOMAIN baselineAttrs : name \notin DOMAIN compared}
    IN  [name \in DOMAIN compared \cup absent |->
            IF name \in DOMAIN compared THEN compared[name] ELSE Absent]

\* comparePrimsAttributes recording an attribute not found in the baseline
\* as Same.
comparePrimsAttributes_CreatedAsSame(modified_, baseline_) ==
    LET baselineAttrs == GetAuthoredAttributes(baseline_)
        modifiedAttrs == GetAuthoredAttributes(modified_)
        compared ==
            [name \in DOMAIN modifiedAttrs |->
                IF name \notin DOMAIN baselineAttrs THEN Same
                ELSE compareAttributes(modifiedAttrs[name], baselineAttrs[name])]
        absent == {name \in DOMAIN baselineAttrs : name \notin DOMAIN compared}
    IN  [name \in DOMAIN compared \cup absent |->
            IF name \in DOMAIN compared THEN compared[name] ELSE Absent]

comparePrimsAttributes(modified_, baseline_) ==
    LET baselineAttrs == GetAuthoredAttributes(baseline_)
        modifiedAttrs == GetAuthoredAttributes(modified_)
        compared ==
            [name \in DOMAIN modifiedAttrs |->
                IF name \notin DOMAIN baselineAttrs THEN Created
                ELSE compareAttributes(modifiedAttrs[name], baselineAttrs[name])]
        absent == {name \in DOMAIN baselineAttrs : name \notin DOMAIN compared}
    IN  [name \in DOMAIN compared \cup absent |->
            IF name \in DOMAIN compared THEN compared[name] ELSE Absent]

\* comparePrimsRelationships passing the baseline relationship as the
\* modified one in its last loop.
comparePrimsRelationships_SwappedAbsent(modified_, baseline_) ==
    LET baselineRels == GetAuthoredRelationships(baseline_)
        modifiedRels == GetAuthoredRelationships(modified_)
        compared ==
            [name \in DOMAIN modifiedRels |->
                IF name \notin DOMAIN baselineRels
                THEN compareRelationships(modifiedRels[name], InvalidRelationship)
                ELSE compareRelationships(modifiedRels[name], baselineRels[name])]
        absent == {name \in DOMAIN baselineRels : name \notin DOMAIN compared}
    IN  [name \in DOMAIN compared \cup absent |->
            IF name \in DOMAIN compared THEN compared[name]
            ELSE compareRelationships(baselineRels[name], InvalidRelationship)]

comparePrimsRelationships(modified_, baseline_) ==
    LET baselineRels == GetAuthoredRelationships(baseline_)
        modifiedRels == GetAuthoredRelationships(modified_)
        compared ==
            [name \in DOMAIN modifiedRels |->
                IF name \notin DOMAIN baselineRels
                THEN compareRelationships(modifiedRels[name], InvalidRelationship)
                ELSE compareRelationships(modifiedRels[name], baselineRels[name])]
        absent == {name \in DOMAIN baselineRels : name \notin DOMAIN compared}
    IN  [name \in DOMAIN compared \cup absent |->
            IF name \in DOMAIN compared THEN compared[name]
            ELSE compareRelationships(InvalidRelationship, baselineRels[name])]

RECURSIVE comparePrims(_, _), comparePrimsChildren(_, _)

\* comparePrimsChildren never finding a modified child among the baseline's.
comparePrimsChildren_NoLookup(modified_, baseline_) ==
    LET baselineChildren == ChildrenByPath(baseline_)
        modifiedChildren == ChildrenByPath(modified_)
        compared ==
            [path \in DOMAIN modifiedChildren |->
                comparePrims(modifiedChildren[path], UsdPrim).result]
        absent == {path \in DOMAIN baselineChildren : path \notin DOMAIN compared}
    IN  [path \in DOMAIN compared \cup absent |->
            IF path \in DOMAIN compared THEN compared[path]
            ELSE comparePrims(UsdPrim, baselineChildren[path]).result]

\* comparePrimsChildren without its last loop over the baseline children.
comparePrimsChildren_NoAbsent(modified_, baseline_) ==
    LET baselineChildren == ChildrenByPath(baseline_)
        modifiedChildren == ChildrenByPath(modified_)
    IN  [path \in DOMAIN modifiedChildren |->
            IF path \notin DOMAIN baselineChildren
            THEN comparePrims(modifiedChildren[path], UsdPrim).result
            ELSE comparePrims(modifiedChildren[path],
                              baselineChildren[path]).result]

\* comparePrimsChildren failing on a child the modified prim does not have.
comparePrimsChildren_ErrorOnAbsent(modified_, baseline_) ==
    LET baselineChildren == ChildrenByPath(baseline_)
        modifiedChildren == ChildrenByPath(modified_)
        compared ==
            [path \in DOMAIN modifiedChildren |->
                IF path \notin DOMAIN baselineChildren
                THEN comparePrims(modifiedChildren[path], UsdPrim).result
                ELSE comparePrims(modifiedChildren[path],
                                  baselineChildren[path]).result]
        absent == {path \in DOMAIN baselineChildren : path \notin DOMAIN compared}
    IN  [path \in DOMAIN compared \cup absent |->
            IF path \in DOMAIN compared THEN compared[path]
            ELSE "InvalidComparison"]

comparePrimsChildren(modified_, baseline_) ==
    LET baselineChildren == ChildrenByPath(baseline_)
        modifiedChildren == ChildrenByPath(modified_)
        compared ==
            [path \in DOMAIN modifiedChildren |->
                IF path \notin DOMAIN baselineChildren
                THEN comparePrims(modifiedChildren[path], UsdPrim).result
                ELSE comparePrims(modifiedChildren[path],
                                  baselineChildren[path]).result]
        absent == {path \in DOMAIN baselineChildren : path \notin DOMAIN compared}
    IN  [path \in DOMAIN compared \cup absent |->
            IF path \in DOMAIN compared THEN compared[path]
            ELSE comparePrims(UsdPrim, baselineChildren[path]).result]

RECURSIVE SeqOf(_, _)
\* The values of map f over the keys S, in the map's iteration order.
SeqOf(f, S) ==
    IF S = {} THEN <<>>
    ELSE LET x == CHOOSE y \in S : TRUE IN <<f[x]>> \o SeqOf(f, S \ {x})

\* comparePrims without its children stage.
comparePrims_NoChildren(modified_, baseline_) ==
    IF ~modified_.valid \/ ~baseline_.valid
    THEN [result |-> IF modified_.valid = baseline_.valid THEN Same ELSE Differ,
          stages |-> <<>>]
    ELSE
    LET attrOverall ==
            computeOverallResult(comparePrimsAttributes(modified_, baseline_))
        relDiffs == comparePrimsRelationships(modified_, baseline_)
        relOveralls ==
            [name \in DOMAIN relDiffs |-> computeOverallResult(relDiffs[name])]
        stageResults == <<attrOverall>> \o SeqOf(relOveralls, DOMAIN relOveralls)
    IN  IF attrOverall = Differ
        THEN [result |-> Differ, stages |-> <<"attributes">>]
        ELSE IF \E name \in DOMAIN relOveralls : relOveralls[name] = Differ
        THEN [result |-> Differ, stages |-> <<"attributes", "relationships">>]
        ELSE [result |-> computeOverallResult(stageResults),
              stages |-> <<"attributes", "relationships">>]

\* comparePrims without its validity test.
comparePrims_NoValidityCheck(modified_, baseline_) ==
    LET attrOverall ==
            computeOverallResult(comparePrimsAttributes(modified_, baseline_))
        relDiffs == comparePrimsRelationships(modified_, baseline_)
        relOveralls ==
            [name \in DOMAIN relDiffs |-> computeOverallResult(relDiffs[name])]
        childrenOverall ==
            computeOverallResult(comparePrimsChildren(modified_, baseline_))
        stageResults ==
            <<attrOverall>> \o SeqOf(relOveralls, DOMAIN relOveralls)
                \o <<childrenOverall>>
    IN  IF attrOverall = Differ
        THEN [result |-> Differ, stages |-> <<"attributes">>]
        ELSE IF \E name \in DOMAIN relOveralls : relOveralls[name] = Differ
        THEN [result |-> Differ, stages |-> <<"attributes", "relationships">>]
        ELSE IF childrenOverall = Differ
        THEN [result |-> Differ,
              stages |-> <<"attributes", "relationships", "children">>]
        ELSE [result |-> computeOverallResult(stageResults),
              stages |-> <<"attributes", "relationships", "children">>]

\* comparePrims leaving with Differ as soon as the attributes are not Same.
comparePrims_EagerDiffer(modified_, baseline_) ==
    IF ~modified_.valid \/ ~baseline_.valid
    THEN [result |-> IF modified_.valid = baseline_.valid THEN Same ELSE Differ,
          stages |-> <<>>]
    ELSE
    LET attrOverall ==
            computeOverallResult(comparePrimsAttributes(modified_, baseline_))
        relDiffs == comparePrimsRelationships(modified_, baseline_)
        relOveralls ==
            [name \in DOMAIN relDiffs |-> computeOverallResult(relDiffs[name])]
        childrenOverall ==
            computeOverallResult(comparePrimsChildren(modified_, baseline_))
        stageResults ==
            <<attrOverall>> \o SeqOf(relOveralls, DOMAIN relOveralls)
                \o <<childrenOverall>>
    IN  IF attrOverall # Same
        THEN [result |-> Differ, stages |-> <<"attributes">>]
        ELSE IF \E name \in DOMAIN relOveralls : relOveralls[name] = Differ
        THEN [result |-> Differ, stages |-> <<"attributes", "relationships">>]
        ELSE IF childrenOverall = Differ
        THEN [result |-> Differ,
              stages |-> <<"attributes", "relationships", "children">>]
        ELSE [result |-> computeOverallResult(stageResults),
              stages |-> <<"attributes", "relationships", "children">>]

\* comparePrims without its relationships stage.
comparePrims_NoRelationships(modified_, baseline_) ==
    IF ~modified_.valid \/ ~baseline_.valid
    THEN [result |-> IF modified_.valid = baseline_.valid THEN Same ELSE Differ,
          stages |-> <<>>]
    ELSE
    LET attrOverall ==
            computeOverallResult(comparePrimsAttributes(modified_, baseline_))
        childrenOverall ==
            computeOverallResult(comparePrimsChildren(modified_, baseline_))
        stageResults == <<attrOverall, childrenOverall>>
    IN  IF attrOverall = Differ
        THEN [result |-> Differ, stages |-> <<"attributes">>]
        ELSE IF childrenOverall = Differ
        THEN [result |-> Differ, stages |-> <<"attributes", "children">>]
        ELSE [result |-> computeOverallResult(stageResults),
              stages |-> <<"attributes", "children">>]

\* comparePrims: the result, and the set differs the call went through.
comparePrims(modified_, baseline_) ==
    IF ~modified_.valid \/ ~baseline_.valid
    THEN [result |-> IF modified_.valid = baseline_.valid THEN Same ELSE Differ,
          stages |-> <<>>]
    ELSE
    LET attrOverall ==
            computeOverallResult(comparePrimsAttributes(modified_, baseline_))
        relDiffs == comparePrimsRelationships(modified_, baseline_)
        relOveralls ==
            [name \in DOMAIN relDiffs |-> computeOverallResult(relDiffs[name])]
        childrenOverall ==
            computeOverallResult(comparePrimsChildren(modified_, baseline_))
        stageResults ==
            <<attrOverall>> \o SeqOf(relOveralls, DOMAIN relOveralls)
                \o <<childrenOverall>>
    IN  IF attrOverall = Differ
        THEN [result |-> Differ, stages |-> <<"attributes">>]
        ELSE IF \E name \in DOMAIN relOveralls : relOveralls[name] = Differ
        THEN [result |-> Differ, stages |-> <<"attributes", "relationships">>]
        ELSE IF childrenOverall = Differ
        THEN [result |-> Differ,
              stages |-> <<"attributes", "relationships", "children">>]
        ELSE [result |-> computeOverallResult(stageResults),
              stages |-> <<"attributes", "relationships", "children">>]

(***************************************************************************)
(* State: the two caller-owned snapshots, which entry point has been       *)
(* called, and what it returned.                                           *)
(***************************************************************************)
VARIABLES modified, baseline, pc, result, diffs, stages, subResults, overall

\* The calls of comparePrims in progress, one per calling thread: the pair
\* each thread was handed, its stack of comparePrims frames, the pairs it
\* has called comparePrims on so far, and the value its call returned.
VARIABLES inputs, callStack, callLog, returned
VARIABLES _newOrOpenRegistrationCount, _beforeNewCallbackId,
          _afterNewCallbackId, _beforeFileReadCallbackId, _exitingCallbackId,
          callbacks, removeLog, trace

diffVars == <<modified, baseline, pc, result, diffs, stages, subResults, overall>>
walkVars == <<inputs, callStack, callLog, returned>>

VARIABLES sceneEvents, notices
VARIABLES ufeObserver, observers, observerCalls
VARIABLES ufeEnableAsserts, fPrim, fAttributes, attributeCalls
sceneVars == <<sceneEvents, notices>>
observerVars == <<ufeObserver, observers, observerCalls>>
attributesVars == <<ufeEnableAsserts, fPrim, fAttributes, attributeCalls>>
listenerVars ==
    <<_newOrOpenRegistrationCount, _beforeNewCallbackId, _afterNewCallbackId,
      _beforeFileReadCallbackId, _exitingCallbackId, callbacks, removeLog,
      trace>>
vars ==
    <<diffVars, walkVars, listenerVars, sceneVars, observerVars,
      attributesVars>>

Threads == {"t1", "t2"}

\* No call of comparePrims is in progress or was made.
NoWalk ==
    /\ inputs = [t \in Threads |-> <<UsdPrim, UsdPrim>>]
    /\ callStack = [t \in Threads |-> <<>>]
    /\ callLog = [t \in Threads |-> <<>>]
    /\ returned = [t \in Threads |-> "None"]

None == "None"

\* The names that UsdAttributes::attribute is called with; one is empty.
AttributeNames == {"", "visibility", "size"}

\* No scene message has been emitted and no notice sent.
NoScene ==
    /\ sceneEvents = <<>>
    /\ notices = <<>>

\* UsdUIUfeObserver::ufeObserver after static initialisation: the null
\* pointer (0), and no observer of it registered with Ufe::Attributes.
NoObserver ==
    /\ ufeObserver = 0
    /\ observers = {}
    /\ observerCalls = <<>>

\* What UsdPrim::GetAttribute returns for a name the prim has no attribute
\* of: an invalid handle.
InvalidUsdAttribute ==
    [valid |-> FALSE, type |-> "kInvalid", allowedTokens |-> FALSE]

\* A UsdAttributes object after construction on a prim without attributes.
NoAttributes ==
    /\ ufeEnableAsserts = FALSE
    /\ fPrim = [name \in AttributeNames \ {""} |-> InvalidUsdAttribute]
    /\ fAttributes = <<>>
    /\ attributeCalls = <<>>

\* The static members of notice.cpp after static initialisation, Maya
\* holding no callback of the listener.
NoListener ==
    /\ _newOrOpenRegistrationCount = 0
    /\ _beforeNewCallbackId = 0
    /\ _afterNewCallbackId = 0
    /\ _beforeFileReadCallbackId = 0
    /\ _exitingCallbackId = 0
    /\ callbacks = <<>>
    /\ removeLog = <<>>
    /\ trace = <<>>

Init ==
    /\ \E pair \in InputPairs : modified = pair[1] /\ baseline = pair[2]
    /\ pc = "ready"
    /\ result = None
    /\ diffs = None
    /\ stages = <<>>
    /\ subResults = <<>>
    /\ overall = None
    /\ NoWalk
    /\ NoListener
    /\ NoScene
    /\ NoObserver
    /\ NoAttributes

ComparePrims ==
    /\ pc = "ready"
    /\ pc' = "comparePrims"
    /\ result' = comparePrims(modified, baseline).result
    /\ stages' = comparePrims(modified, baseline).stages
    /\ UNCHANGED <<modified, baseline, diffs, subResults, overall>>
    /\ UNCHANGED <<walkVars, listenerVars, sceneVars, observerVars, attributesVars>>

ComparePrimsAttributes ==
    /\ pc = "ready"
    /\ pc' = "comparePrimsAttributes"
    /\ diffs' = comparePrimsAttributes(modified, baseline)
    /\ UNCHANGED <<modified, baseline, result, stages, subResults, overall>>
    /\ UNCHANGED <<walkVars, listenerVars, sceneVars, observerVars, attributesVars>>

ComparePrimsRelationships ==
    /\ pc = "ready"
    /\ pc' = "comparePrimsRelationships"
    /\ diffs' = comparePrimsRelationships(modified, baseline)
    /\ UNCHANGED <<modified, baseline, result, stages, subResults, overall>>
    /\ UNCHANGED <<walkVars, listenerVars, sceneVars, observerVars, attributesVars>>

\* ComparePrimsChildren emptying the modified prim it was handed.
ComparePrimsChildren_Consuming ==
    /\ pc = "ready"
    /\ pc' = "comparePrimsChildren"
    /\ diffs' = comparePrimsChildren(modified, baseline)
    /\ modified' = UsdPrim
    /\ UNCHANGED <<baseline, result, stages, subResults, overall>>
    /\ UNCHANGED <<walkVars, listenerVars, sceneVars, observerVars, attributesVars>>

ComparePrimsChildren ==
    /\ pc = "ready"
    /\ pc' = "comparePrimsChildren"
    /\ diffs' = comparePrimsChildren(modified, baseline)
    /\ UNCHANGED <<modified, baseline, result, stages, subResults, overall>>
    /\ UNCHANGED <<walkVars, listenerVars, sceneVars, observerVars, attributesVars>>

Next ==
    \/ ComparePrims
    \/ ComparePrimsAttributes
    \/ ComparePrimsRelationships
    \/ ComparePrimsChildren

Spec == Init /\ [][Next]_vars

(***************************************************************************)
(* The aggregator on its own, over every map of at most MaxKeys results.   *)
(***************************************************************************)
ResultMaps == UNION {[1..n -> DiffResults] : n \in 0..MaxKeys}

InitAggregate ==
    /\ modified = UsdPrim
    /\ baseline = UsdPrim
    /\ pc = "aggregate"
    /\ result = None
    /\ diffs = None
    /\ stages = <<>>
    /\ subResults \in ResultMaps
    /\ overall = None
    /\ NoWalk
    /\ NoListener
    /\ NoScene
    /\ NoObserver
    /\ NoAttributes

ComputeOverallResult ==
    /\ pc = "aggregate"
    /\ pc' = "aggregated"
    /\ overall' = computeOverallResult(subResults)
    /\ UNCHANGED <<modified, baseline, result, diffs, stages, subResults>>
    /\ UNCHANGED <<walkVars, listenerVars, sceneVars, observerVars, attributesVars>>

NextAggregate == ComputeOverallResult

SpecAggregate == InitAggregate /\ [][NextAggregate]_vars

(***************************************************************************)
(* comparePrims call by call: each call of comparePrims is a frame on the  *)
(* calling thread's stack; comparePrimsChildren, called by the frame on    *)
(* top, calls comparePrims on one child pair after the other.              *)
(***************************************************************************)
\* Largest number of authored items of the prims that two threads compare
\* at the same time.
MaxConcurrentSize == 2

RECURSIVE OrderOf(_)
\* The keys S in the iteration order of the map that holds them.
OrderOf(S) ==
    IF S = {} THEN <<>>
    ELSE LET x == CHOOSE y \in S : TRUE IN <<x>> \o OrderOf(S \ {x})

\* Whether comparePrims(m, b) gets to call comparePrimsChildren: both prims
\* are valid and neither the attributes nor a relationship made it return.
ReachesChildren(m, b) ==
    /\ m.valid /\ b.valid
    /\ computeOverallResult(comparePrimsAttributes(m, b)) # Differ
    /\ \A name \in DOMAIN comparePrimsRelationships(m, b) :
          computeOverallResult(comparePrimsRelationships(m, b)[name]) # Differ

\* The calls of comparePrims that comparePrimsChildren(m, b) makes, in
\* order: the children of m, then the children of b that m does not have.
ChildCalls(m, b) ==
    LET mc == ChildrenByPath(m)
        bc == ChildrenByPath(b)
        call(path) ==
            [path |-> path,
             modified |-> IF path \in DOMAIN mc THEN mc[path] ELSE UsdPrim,
             baseline |-> IF path \in DOMAIN bc THEN bc[path] ELSE UsdPrim]
        order == OrderOf(DOMAIN mc) \o OrderOf(DOMAIN bc \ DOMAIN mc)
    IN  [i \in DOMAIN order |-> call(order[i])]

\* NewFrame whose first child call is on the compared pair itself.
NewFrame_SamePair(m, b, path) ==
    [modified |-> m, baseline |-> b, path |-> path,
     pending |-> IF ReachesChildren(m, b)
                 THEN <<[path |-> path, modified |-> m, baseline |-> b]>>
                          \o ChildCalls(m, b)
                 ELSE <<>>,
     results |-> <<>>]

\* The frame of a call comparePrims(m, b) that is to store its result under
\* the given path: the child calls still to make and the results of those
\* made.
NewFrame(m, b, path) ==
    [modified |-> m, baseline |-> b, path |-> path,
     pending |-> IF ReachesChildren(m, b) THEN ChildCalls(m, b) ELSE <<>>,
     results |-> <<>>]

\* What comparePrims(m, b) returns once comparePrimsChildren has returned
\* childrenDiffs.
comparePrimsGiven(m, b, childrenDiffs) ==
    IF ~m.valid \/ ~b.valid
    THEN (IF m.valid = b.valid THEN Same ELSE Differ)
    ELSE
    LET attrOverall == computeOverallResult(comparePrimsAttributes(m, b))
        relDiffs == comparePrimsRelationships(m, b)
        relOveralls ==
            [name \in DOMAIN relDiffs |-> computeOverallResult(relDiffs[name])]
        childrenOverall == computeOverallResult(childrenDiffs)
        stageResults ==
            <<attrOverall>> \o SeqOf(relOveralls, DOMAIN relOveralls)
                \o <<childrenOverall>>
    IN  IF attrOverall = Differ THEN Differ
        ELSE IF \E name \in DOMAIN relOveralls : relOveralls[name] = Differ
        THEN Differ
        ELSE IF childrenOverall = Differ THEN Differ
        ELSE computeOverallResult(stageResults)

Top(stack) == stack[Len(stack)]
Pop(stack) == SubSeq(stack, 1, Len(stack) - 1)

\* Thread t calls comparePrims on the pair it was handed.
CallComparePrims(t) ==
    /\ callStack[t] = <<>>
    /\ returned[t] = None
    /\ callStack' = [callStack EXCEPT
                        ![t] = <<NewFrame(inputs[t][1], inputs[t][2], <<>>)>>]
    /\ callLog' = [callLog EXCEPT ![t] = <<inputs[t]>>]
    /\ UNCHANGED <<inputs, returned>>
    /\ UNCHANGED <<diffVars, listenerVars, sceneVars, observerVars, attributesVars>>

\* comparePrimsChildren, in the frame on top of t's stack, calls
\* comparePrims on the next child pair.
Recurse(t) ==
    /\ callStack[t] # <<>>
    /\ Top(callStack[t]).pending # <<>>
    /\ LET top == Top(callStack[t])
           call == Head(top.pending)
       IN  /\ callStack' =
                 [callStack EXCEPT
                     ![t] = Append(
                         [@ EXCEPT ![Len(@)].pending = Tail(top.pending)],
                         NewFrame(call.modified, call.baseline, call.path))]
           /\ callLog' =
                 [callLog EXCEPT
                     ![t] = Append(@, <<call.modified, call.baseline>>)]
    /\ UNCHANGED <<inputs, returned>>
    /\ UNCHANGED <<diffVars, listenerVars, sceneVars, observerVars, attributesVars>>

\* Return storing the result of a child call in the frame on top of every
\* thread's stack, as if the results were kept in one shared map.
Return_SharedResults(t) ==
    /\ callStack[t] # <<>>
    /\ Top(callStack[t]).pending = <<>>
    /\ LET top == Top(callStack[t])
           value == comparePrimsGiven(top.modified, top.baseline, top.results)
           rest == [u \in Threads |->
                       IF u = t THEN Pop(callStack[t]) ELSE callStack[u]]
       IN  IF Len(callStack[t]) = 1
           THEN /\ callStack' = rest
                /\ returned' = [returned EXCEPT ![t] = value]
           ELSE /\ callStack' =
                      [u \in Threads |->
                          IF rest[u] = <<>> THEN rest[u]
                          ELSE [rest[u] EXCEPT
                                   ![Len(rest[u])].results =
                                       (top.path :> value) @@ @]]
                /\ UNCHANGED returned
    /\ UNCHANGED <<inputs, callLog>>
    /\ UNCHANGED <<diffVars, listenerVars, sceneVars, observerVars, attributesVars>>

\* The call on top of t's stack has made all its child calls and returns:
\* to comparePrimsChildren in the frame below, which stores the result
\* under the child's path, or to the thread.
Return(t) ==
    /\ callStack[t] # <<>>
    /\ Top(callStack[t]).pending = <<>>
    /\ LET top == Top(callStack[t])
           value == comparePrimsGiven(top.modified, top.baseline, top.results)
           rest == Pop(callStack[t])
       IN  IF rest = <<>>
           THEN /\ callStack' = [callStack EXCEPT ![t] = rest]
                /\ returned' = [returned EXCEPT ![t] = value]
           ELSE /\ callStack' =
                      [callStack EXCEPT
                          ![t] = [rest EXCEPT
                                     ![Len(rest)].results =
                                         (top.path :> value) @@ @]]
                /\ UNCHANGED returned
    /\ UNCHANGED <<inputs, callLog>>
    /\ UNCHANGED <<diffVars, listenerVars, sceneVars, observerVars, attributesVars>>

\* The differ's own entry points are not called.
NoDiff ==
    /\ modified = UsdPrim
    /\ baseline = UsdPrim
    /\ pc = "walk"
    /\ result = None
    /\ diffs = None
    /\ stages = <<>>
    /\ subResults = <<>>
    /\ overall = None

\* One thread, over every pair of the universe.
InitWalk ==
    /\ NoDiff
    /\ NoListener
    /\ NoScene
    /\ NoObserver
    /\ NoAttributes
    /\ \E pair \in InputPairs :
          inputs = [t \in Threads |-> IF t = "t1" THEN pair ELSE <<UsdPrim, UsdPrim>>]
    /\ callStack = [t \in Threads |-> <<>>]
    /\ callLog = [t \in Threads |-> <<>>]
    /\ returned = [t \in Threads |-> None]

NextWalk ==
    \/ CallComparePrims("t1")
    \/ Recurse("t1")
    \/ Return("t1")

\* A call of comparePrims runs to its end once made.
SpecWalk == InitWalk /\ [][NextWalk]_vars /\ WF_vars(NextWalk)

\* The prims of exactly n authored items at the given root path.
PrimsAt(root, n) ==
    {AtPath(s, root) : s \in ShapeTable[n]}
    \cup (IF n = 0 THEN {UsdPrim} ELSE {})

\* The pairs of prims at the given root path of exactly, and of at most, n
\* authored items in all.
PairsExactAt(root, n) ==
    UNION {PrimsAt(root, i) \X PrimsAt(root, n - i) : i \in 0..n}

PairsAt(root, n) == UNION {PairsExactAt(root, i) : i \in 0..n}

\* The number of authored items of a prim.
RECURSIVE Weight(_)
Weight(prim) ==
    OwnWeight(prim.attrs, prim.rels)
    + SumOver([x \in DOMAIN prim.children |-> 1 + Weight(prim.children[x])],
              DOMAIN prim.children)

\* Two threads on disjoint prim pairs of at most n authored items in all:
\* the prims of t1 live under /A, those of t2 under /B.
ConcurrentInputs(n) ==
    UNION {{[t \in Threads |-> IF t = "t1" THEN p1 ELSE p2] :
                p1 \in PairsExactAt(<<"A">>, i), p2 \in PairsAt(<<"B">>, n - i)} :
           i \in 0..n}

InitConcurrent ==
    /\ NoDiff
    /\ NoListener
    /\ NoScene
    /\ NoObserver
    /\ NoAttributes
    /\ inputs \in ConcurrentInputs(MaxConcurrentSize)
    /\ callStack = [t \in Threads |-> <<>>]
    /\ callLog = [t \in Threads |-> <<>>]
    /\ returned = [t \in Threads |-> None]

NextConcurrent ==
    \E t \in Threads :
        \/ CallComparePrims(t)
        \/ Recurse(t)
        \/ Return(t)

SpecConcurrent == InitConcurrent /\ [][NextConcurrent]_vars

(***************************************************************************)
(* UsdMayaNoticeListener: the reference-counted installation of Maya's     *)
(* scene callbacks.                                                        *)
(***************************************************************************)
\* Largest number of InstallListener and RemoveListener calls in a run.
MaxCalls == 6

SceneMessages == {"kAfterNew", "kBeforeNew", "kBeforeFileRead", "kMayaExiting"}

\* MSceneMessage::addCallback: Maya registers func for the message under an
\* id it has not handed out before; ids are never 0.
addCallback(table, message, func) ==
    Append(table, [message |-> message, func |-> func, registered |-> TRUE])

\* The id that addCallback(table, ...) returns.
addedCallbackId(table) == Len(table) + 1

\* MMessage::removeCallback: Maya drops the callback of that id; an id it
\* does not hold is refused and nothing changes.
removeCallback(table, id) ==
    IF id \in DOMAIN table THEN [table EXCEPT ![id].registered = FALSE]
    ELSE table

InstallListener ==
    /\ Len(trace) < MaxCalls
    /\ trace' = Append(trace, "InstallListener")
    /\ _newOrOpenRegistrationCount' = _newOrOpenRegistrationCount + 1
    /\ UNCHANGED removeLog
    /\ IF _newOrOpenRegistrationCount > 0
       THEN UNCHANGED <<_beforeNewCallbackId, _afterNewCallbackId,
                        _beforeFileReadCallbackId, _exitingCallbackId,
                        callbacks>>
       ELSE
       LET afterNew == _afterNewCallbackId = 0
           table1 == IF afterNew
                     THEN addCallback(callbacks, "kAfterNew",
                                      "_afterNewSceneCallback")
                     ELSE callbacks
           beforeNew == _beforeNewCallbackId = 0
           table2 == IF beforeNew
                     THEN addCallback(table1, "kBeforeNew",
                                      "_beforeNewSceneCallback")
                     ELSE table1
           beforeFileRead == _beforeFileReadCallbackId = 0
           table3 == IF beforeFileRead
                     THEN addCallback(table2, "kBeforeFileRead",
                                      "_beforeNewSceneCallback")
                     ELSE table2
           exiting == _exitingCallbackId = 0
           table4 == IF exiting
                     THEN addCallback(table3, "kMayaExiting",
                                      "_beforeNewSceneCallback")
                     ELSE table3
       IN  /\ _afterNewCallbackId' =
                 IF afterNew THEN addedCallbackId(callbacks)
                 ELSE _afterNewCallbackId
           /\ _beforeNewCallbackId' =
                 IF beforeNew THEN addedCallbackId(table1)
                 ELSE _beforeNewCallbackId
           /\ _beforeFileReadCallbackId' =
                 IF beforeFileRead THEN addedCallbackId(table2)
                 ELSE _beforeFileReadCallbackId
           /\ _exitingCallbackId' =
                 IF exiting THEN addedCallbackId(table3)
                 ELSE _exitingCallbackId
           /\ callbacks' = table4
    /\ UNCHANGED <<diffVars, walkVars, sceneVars, observerVars, attributesVars>>

RemoveListener ==
    /\ Len(trace) < MaxCalls
    /\ trace' = Append(trace, "RemoveListener")
    /\ _newOrOpenRegistrationCount' = _newOrOpenRegistrationCount - 1
    /\ UNCHANGED <<_beforeNewCallbackId, _afterNewCallbackId,
                   _beforeFileReadCallbackId, _exitingCallbackId>>
    /\ IF _newOrOpenRegistrationCount > 1
       THEN UNCHANGED <<callbacks, removeLog>>
       ELSE
       LET ids ==
               (IF _afterNewCallbackId # 0
                THEN <<_afterNewCallbackId>> ELSE <<>>)
               \o (IF _beforeFileReadCallbackId = 0
                   THEN <<_beforeFileReadCallbackId>> ELSE <<>>)
               \o (IF _exitingCallbackId # 0
                   THEN <<_exitingCallbackId>> ELSE <<>>)
           removeAll[i \in 0..Len(ids)] ==
               IF i = 0 THEN callbacks
               ELSE removeCallback(removeAll[i - 1], ids[i])
       IN  /\ callbacks' = removeAll[Len(ids)]
           /\ removeLog' = removeLog \o ids
    /\ UNCHANGED <<diffVars, walkVars, sceneVars, observerVars, attributesVars>>

InitListener ==
    /\ NoDiff
    /\ NoWalk
    /\ NoListener
    /\ NoScene
    /\ NoObserver
    /\ NoAttributes

NextListener ==
    \/ InstallListener
    \/ RemoveListener

SpecListener == InitListener /\ [][NextListener]_vars

(***************************************************************************)
(* Maya emits scene messages; the callbacks of the listener send notices.  *)
(***************************************************************************)
\* Largest number of scene messages emitted in a run.
MaxEvents == 2

UsdMayaSceneResetNotice == "UsdMayaSceneResetNotice"
UsdMayaSceneBeforeResetNotice == "UsdMayaSceneBeforeResetNotice"

\* The notices that _afterNewSceneCallback sends, in order.
_afterNewSceneCallback == <<UsdMayaSceneResetNotice>>

\* _beforeNewSceneCallback without the test for an import or a reference.
_beforeNewSceneCallback_NoGuard(isImportingFile, isReferencingFile) ==
    <<UsdMayaSceneBeforeResetNotice, UsdMayaSceneResetNotice>>

\* _beforeNewSceneCallback sending its two notices in the other order.
_beforeNewSceneCallback_ResetFirst(isImportingFile, isReferencingFile) ==
    IF isImportingFile \/ isReferencingFile THEN <<>>
    ELSE <<UsdMayaSceneResetNotice, UsdMayaSceneBeforeResetNotice>>

\* The notices that _beforeNewSceneCallback sends, in order, given what
\* MFileIO::isImportingFile and MFileIO::isReferencingFile answer.
_beforeNewSceneCallback(isImportingFile, isReferencingFile) ==
    IF isImportingFile \/ isReferencingFile THEN <<>>
    ELSE <<UsdMayaSceneBeforeResetNotice, UsdMayaSceneResetNotice>>

\* Maya calling the function that was registered with addCallback.
InvokeCallback(func, isImportingFile, isReferencingFile) ==
    IF func = "_afterNewSceneCallback" THEN _afterNewSceneCallback
    ELSE _beforeNewSceneCallback(isImportingFile, isReferencingFile)

\* The ids of the callbacks registered for the message, in the order of
\* their registration.
CallbacksFor(message) ==
    LET IsFor(id) ==
            callbacks[id].message = message /\ callbacks[id].registered
    IN  SelectSeq([id \in 1..Len(callbacks) |-> id], IsFor)

\* Maya emits a scene message while it is or is not importing or
\* referencing a file, and calls every callback registered for it; each
\* notice sent is recorded with the event and the callback that sent it.
EmitSceneMessage(message, isImportingFile, isReferencingFile) ==
    /\ Len(sceneEvents) < MaxEvents
    /\ LET event == Len(sceneEvents) + 1
           ids == CallbacksFor(message)
           SentBy(id) ==
               LET sent == InvokeCallback(callbacks[id].func,
                                          isImportingFile, isReferencingFile)
               IN  [k \in DOMAIN sent |->
                       [notice |-> sent[k], event |-> event, callback |-> id]]
           sentUpTo[i \in 0..Len(ids)] ==
               IF i = 0 THEN <<>> ELSE sentUpTo[i - 1] \o SentBy(ids[i])
       IN  /\ sceneEvents' =
                 Append(sceneEvents,
                        [message |-> message,
                         isImportingFile |-> isImportingFile,
                         isReferencingFile |-> isReferencingFile,
                         invoked |-> ids])
           /\ notices' = notices \o sentUpTo[Len(ids)]
    /\ UNCHANGED <<diffVars, walkVars, listenerVars, observerVars,
                   attributesVars>>

InitScene ==
    /\ NoDiff
    /\ NoWalk
    /\ NoListener
    /\ NoScene
    /\ NoObserver
    /\ NoAttributes

NextScene ==
    \/ InstallListener
    \/ RemoveListener
    \/ \E message \in SceneMessages :
           \E isImportingFile, isReferencingFile \in BOOLEAN :
               EmitSceneMessage(message, isImportingFile, isReferencingFile)

SpecScene == InitScene /\ [][NextScene]_vars

(***************************************************************************)
(* UsdUIUfeObserver: the one observer of Ufe::Attributes.                  *)
(***************************************************************************)
\* Largest number of create and destroy calls in a run.
MaxObserverCalls == 6

\* std::make_shared<UsdUIUfeObserver>(): an object that did not exist
\* before, named by the number of create calls so far.
NewObserver ==
    1 + Cardinality({i \in DOMAIN observerCalls : observerCalls[i] = "create"})

\* create without the test of ufeObserver.
create_Unguarded ==
    /\ Len(observerCalls) < MaxObserverCalls
    /\ observerCalls' = Append(observerCalls, "create")
    /\ ufeObserver' = NewObserver
    /\ observers' = observers \cup {NewObserver}
    /\ UNCHANGED <<diffVars, walkVars, listenerVars, sceneVars,
                   attributesVars>>

\* UsdUIUfeObserver::create; a failed TF_VERIFY reports and goes on.
create ==
    /\ Len(observerCalls) < MaxObserverCalls
    /\ observerCalls' = Append(observerCalls, "create")
    /\ IF ufeObserver = 0
       THEN /\ ufeObserver' = NewObserver
            /\ observers' = observers \cup {NewObserver}
       ELSE UNCHANGED <<ufeObserver, observers>>
    /\ UNCHANGED <<diffVars, walkVars, listenerVars, sceneVars,
                   attributesVars>>

\* UsdUIUfeObserver::destroy.
destroy ==
    /\ Len(observerCalls) < MaxObserverCalls
    /\ observerCalls' = Append(observerCalls, "destroy")
    /\ IF ufeObserver # 0
       THEN /\ observers' = observers \ {ufeObserver}
            /\ ufeObserver' = 0
       ELSE UNCHANGED <<ufeObserver, observers>>
    /\ UNCHANGED <<diffVars, walkVars, listenerVars, sceneVars,
                   attributesVars>>

InitObserver ==
    /\ NoDiff
    /\ NoWalk
    /\ NoListener
    /\ NoScene
    /\ NoObserver
    /\ NoAttributes

NextObserver ==
    \/ create
    \/ destroy

SpecObserver == InitObserver /\ [][NextObserver]_vars

(***************************************************************************)
(* UsdAttributes: the per-name cache of Ufe attributes of one prim.        *)
(***************************************************************************)
\* Largest number of UsdAttributes::attribute calls in a run.
MaxAttributeCalls == 3

\* What usdTypeToUfe makes of the type names of the prim's attributes.
UsdAttributeTypes == {"kInt", "kEnumString", "kGeneric"}

\* The types that UsdAttributes::attribute has a branch for.
SupportedTypes ==
    {"kBool", "kInt", "kFloat", "kDouble", "kString", "kColorFloat3",
     "kEnumString", "kInt3", "kFloat3", "kDouble3", "kGeneric"}

\* The null Ufe::Attribute::Ptr.
nullptr == [type |-> "nullptr", name |-> "", serial |-> 0]

\* UsdAttributes::getUfeTypeForAttribute, for a build without
\* UFE_ENABLE_ASSERTS or a valid attribute.
getUfeTypeForAttribute(usdAttr) ==
    IF usdAttr.valid
    THEN IF usdAttr.type = "kEnumString" /\ ~usdAttr.allowedTokens
         THEN "kString"
         ELSE usdAttr.type
    ELSE "kInvalid"

\* The object that UsdAttribute<Type>::create makes: one that did not exist
\* before, numbered by the objects created so far.
NewAttribute(type, name) ==
    [type |-> type, name |-> name,
     serial |-> 1 + Cardinality({i \in DOMAIN attributeCalls :
                                    attributeCalls[i].cached})]

\* The record of one call: its argument, what GetAttribute gave for it, how
\* the call ended, what it returned and whether it stored a cache entry.
Call(name, usdAttr, outcome, value, cached) ==
    [name |-> name, usdAttr |-> usdAttr, outcome |-> outcome,
     result |-> value, cached |-> cached]

\* attribute without the lookup in fAttributes.
attribute_NoLookup(name) ==
    /\ Len(attributeCalls) < MaxAttributeCalls
    /\ UNCHANGED <<ufeEnableAsserts, fPrim>>
    /\ IF name = ""
       THEN /\ attributeCalls' =
                  Append(attributeCalls,
                         Call(name, InvalidUsdAttribute, "returned", nullptr,
                              FALSE))
            /\ UNCHANGED fAttributes
       ELSE LET usdAttr == fPrim[name]
                newAttrType == getUfeTypeForAttribute(usdAttr)
                newAttr == IF newAttrType \in SupportedTypes
                           THEN NewAttribute(newAttrType, name)
                           ELSE nullptr
            IN  /\ fAttributes' = (name :> newAttr) @@ fAttributes
                /\ attributeCalls' =
                      Append(attributeCalls,
                             Call(name, usdAttr, "returned", newAttr, TRUE))
    /\ UNCHANGED <<diffVars, walkVars, listenerVars, sceneVars, observerVars>>

\* UsdAttributes::attribute(name).  In a build with UFE_ENABLE_ASSERTS the
\* UFE_ASSERT_MSG of getUfeTypeForAttribute ends the call for an invalid
\* attribute, before anything is stored.
attribute(name) ==
    /\ Len(attributeCalls) < MaxAttributeCalls
    /\ UNCHANGED <<ufeEnableAsserts, fPrim>>
    /\ IF name = ""
       THEN /\ attributeCalls' =
                  Append(attributeCalls,
                         Call(name, InvalidUsdAttribute, "returned", nullptr,
                              FALSE))
            /\ UNCHANGED fAttributes
       ELSE IF name \in DOMAIN fAttributes
       THEN /\ attributeCalls' =
                  Append(attributeCalls,
                         Call(name, fPrim[name], "returned",
                              fAttributes[name], FALSE))
            /\ UNCHANGED fAttributes
       ELSE LET usdAttr == fPrim[name]
                newAttrType == getUfeTypeForAttribute(usdAttr)
                newAttr == IF newAttrType \in SupportedTypes
                           THEN NewAttribute(newAttrType, name)
                           ELSE nullptr
            IN  IF ufeEnableAsserts /\ ~usdAttr.valid
                THEN /\ attributeCalls' =
                           Append(attributeCalls,
                                  Call(name, usdAttr, "UFE_ASSERT", nullptr,
                                       FALSE))
                     /\ UNCHANGED fAttributes
                ELSE /\ fAttributes' = (name :> newAttr) @@ fAttributes
                     /\ attributeCalls' =
                           Append(attributeCalls,
                                  Call(name, usdAttr, "returned", newAttr,
                                       TRUE))
    /\ UNCHANGED <<diffVars, walkVars, listenerVars, sceneVars, observerVars>>

\* An attribute of the name is added to the prim, outside UsdAttributes.
AddAttribute(name, type, allowedTokens) ==
    /\ ~fPrim[name].valid
    /\ fPrim' = [fPrim EXCEPT ![name] =
                    [valid |-> TRUE, type |-> type,
                     allowedTokens |-> allowedTokens]]
    /\ UNCHANGED <<ufeEnableAsserts, fAttributes, attributeCalls>>
    /\ UNCHANGED <<diffVars, walkVars, listenerVars, sceneVars, observerVars>>

\* A UsdAttributes object on a prim without attributes, in either build.
InitAttributes ==
    /\ NoDiff
    /\ NoWalk
    /\ NoListener
    /\ NoScene
    /\ NoObserver
    /\ ufeEnableAsserts \in BOOLEAN
    /\ fPrim = [name \in AttributeNames \ {""} |-> InvalidUsdAttribute]
    /\ fAttributes = <<>>
    /\ attributeCalls = <<>>

NextAttributes ==
    \/ \E name \in AttributeNames : attribute(name)
    \/ \E name \in AttributeNames \ {""} :
           \E type \in UsdAttributeTypes :
               \E allowedTokens \in {tokens \in BOOLEAN :
                                        tokens => type = "kEnumString"} :
                   AddAttribute(name, type, allowedTokens)

SpecAttributes == InitAttributes /\ [][NextAttributes]_vars

(***************************************************************************)
(* Properties                                                              *)
(***************************************************************************)
BothValid == modified.valid /\ baseline.valid

RECURSIVE DifferAnywhere(_, _)
\* Some attribute, relationship target or prim compares as Differ somewhere
\* in the subtrees of the two valid prims m and b, at any depth.
DifferAnywhere(m, b) ==
    LET attrDiffs == comparePrimsAttributes(m, b)
        relDiffs == comparePrimsRelationships(m, b)
        childrenDiffs == comparePrimsChildren(m, b)
        mc == ChildrenByPath(m)
        bc == ChildrenByPath(b)
    IN  \/ \E name \in DOMAIN attrDiffs : attrDiffs[name] = Differ
        \/ \E name \in DOMAIN relDiffs :
              \E p \in DOMAIN relDiffs[name] : relDiffs[name][p] = Differ
        \/ \E path \in DOMAIN childrenDiffs : childrenDiffs[path] = Differ
        \/ \E path \in DOMAIN mc \cap DOMAIN bc : DifferAnywhere(mc[path], bc[path])

\* C1 (dominance law): when comparePrims has been called on two valid prims
\* and any attribute, relationship or prim anywhere in the compared subtrees
\* compares as Differ, the call returned Differ.
C1_Dominance ==
    (pc = "comparePrims" /\ BothValid /\ DifferAnywhere(modified, baseline))
        => result = Differ

\* The only Differ lies below a child that both prims have: none of the
\* root's own attributes or relationships differs.
C1_Witness ==
    /\ pc = "comparePrims"
    /\ BothValid
    /\ \A name \in DOMAIN comparePrimsAttributes(modified, baseline) :
          comparePrimsAttributes(modified, baseline)[name] # Differ
    /\ \E path \in DOMAIN ChildrenByPath(modified) \cap DOMAIN ChildrenByPath(baseline) :
          DifferAnywhere(ChildrenByPath(modified)[path], ChildrenByPath(baseline)[path])
    /\ result = Differ

\* C2: comparePrims of a prim against an identical snapshot of itself is
\* Same, whether the prim is valid or not and whatever it holds.
C2_SelfCompareSame ==
    pc = "comparePrims" =>
        /\ (modified = baseline => result = Same)
        /\ comparePrims(modified, modified).result = Same
        /\ comparePrims(baseline, baseline).result = Same

C2_Witness ==
    /\ pc = "comparePrims"
    /\ modified = baseline
    /\ modified.valid
    /\ \E x \in DOMAIN modified.children : modified.children[x].attrs # <<>>
    /\ result = Same

\* C3: with at least one invalid prim, comparePrims returns Same when both
\* are invalid and Differ otherwise, and goes through no set differ.
C3_InvalidPrims ==
    (pc = "comparePrims" /\ ~BothValid) =>
        /\ result = (IF ~modified.valid /\ ~baseline.valid THEN Same ELSE Differ)
        /\ stages = <<>>

C3_Witness ==
    /\ pc = "comparePrims"
    /\ ~modified.valid
    /\ baseline.valid
    /\ baseline.attrs # <<>>
    /\ result = Differ
    /\ stages = <<>>

\* C4: the keys of comparePrimsAttributes' result are exactly the attribute
\* names authored on modified or on baseline.
C4_AttributeKeys ==
    pc = "comparePrimsAttributes" =>
        DOMAIN diffs = DOMAIN modified.attrs \cup DOMAIN baseline.attrs

C4_Witness ==
    /\ pc = "comparePrimsAttributes"
    /\ DOMAIN modified.attrs # {}
    /\ DOMAIN baseline.attrs # {}
    /\ DOMAIN modified.attrs \cap DOMAIN baseline.attrs = {}
    /\ Cardinality(DOMAIN diffs) = 2

\* C5: in comparePrimsAttributes' result a name authored only on modified is
\* Created, a name authored only on baseline is Absent, and a name authored
\* on both is Same when the two attributes are equal and Differ otherwise.
C5_AttributeValues ==
    pc = "comparePrimsAttributes" =>
        \A name \in DOMAIN diffs :
            diffs[name] =
                IF name \notin DOMAIN baseline.attrs THEN Created
                ELSE IF name \notin DOMAIN modified.attrs THEN Absent
                ELSE IF modified.attrs[name] = baseline.attrs[name] THEN Same
                ELSE Differ

\* M = {color: red, size: blue}, B = {color: blue, size: blue}.
C5_Witness ==
    /\ pc = "comparePrimsAttributes"
    /\ modified.attrs = [color |-> "red", size |-> "blue"]
    /\ baseline.attrs = [color |-> "blue", size |-> "blue"]
    /\ diffs = [color |-> Differ, size |-> Same]

CreatedAttributes == DOMAIN modified.attrs \ DOMAIN baseline.attrs

\* C6: an attribute authored on modified and not on baseline is recorded as
\* Created, and the aggregate of that attribute set, and so the result of
\* comparePrims on valid prims, is not Same.
C6_CreatedAttribute ==
    CreatedAttributes # {} =>
        /\ pc = "comparePrimsAttributes" =>
              /\ \A name \in CreatedAttributes : diffs[name] = Created
              /\ computeOverallResult(diffs) # Same
        /\ (pc = "comparePrims" /\ BothValid) => result # Same

C6_Witness ==
    /\ pc = "comparePrimsAttributes"
    /\ CreatedAttributes # {}
    /\ DOMAIN modified.attrs \cap DOMAIN baseline.attrs # {}
    /\ \E name \in CreatedAttributes : diffs[name] = Created

AbsentRelationships == DOMAIN baseline.rels \ DOMAIN modified.rels

RECURSIVE Content(_)
\* What a prim holds, whatever its path.
Content(prim) ==
    [valid |-> prim.valid, attrs |-> prim.attrs, rels |-> prim.rels,
     children |-> [x \in DOMAIN prim.children |-> Content(prim.children[x])]]

\* C8: a child of baseline renamed in modified and otherwise identical is
\* reported by comparePrimsChildren as Created at its new path and Absent
\* at its old path.
C8_RenamedChild ==
    pc = "comparePrimsChildren" =>
        LET mc == ChildrenByPath(modified)
            bc == ChildrenByPath(baseline)
        IN  \A newPath \in DOMAIN mc \ DOMAIN bc, oldPath \in DOMAIN bc \ DOMAIN mc :
                Content(mc[newPath]) = Content(bc[oldPath]) =>
                    diffs[newPath] = Created /\ diffs[oldPath] = Absent

\* M and B are valid, at the same path, with identical attributes and
\* relationships; M has the children a and b, B has only a, identical to
\* M's a.
C9_Scenario ==
    /\ BothValid
    /\ modified.path = baseline.path
    /\ modified.attrs = baseline.attrs
    /\ modified.rels = baseline.rels
    /\ DOMAIN modified.children = {"a", "b"}
    /\ DOMAIN baseline.children = {"a"}
    /\ modified.children["a"] = baseline.children["a"]

\* C9: in that scenario the child diff is {a: Same, b: Created}, its
\* aggregate is not Same, and comparePrims is neither Same nor Differ.
C9_AddedChild ==
    C9_Scenario =>
        /\ pc = "comparePrimsChildren" =>
              /\ diffs = [path \in {Append(modified.path, "a"),
                                    Append(modified.path, "b")} |->
                            IF path = Append(modified.path, "a") THEN Same
                            ELSE Created]
              /\ computeOverallResult(diffs) # Same
        /\ pc = "comparePrims" => result \notin {Same, Differ}

\* C10: computeOverallResult returns Differ when some value is Differ,
\* otherwise Same when the map is empty or all its values are Same, and
\* otherwise a result that is neither Same nor Differ.
C10_Aggregator ==
    pc = "aggregated" =>
        IF \E k \in DOMAIN subResults : subResults[k] = Differ
        THEN overall = Differ
        ELSE IF \A k \in DOMAIN subResults : subResults[k] = Same
        THEN overall = Same
        ELSE overall \notin {Same, Differ}

C10_Witness ==
    /\ pc = "aggregated"
    /\ subResults = <<Same, Created, Absent>>
    /\ overall \notin {Same, Differ}

\* The three stage results of comparePrims computed in full and aggregated
\* together, with no early exit.
FullAggregate(m, b) ==
    LET attrOverall == computeOverallResult(comparePrimsAttributes(m, b))
        relDiffs == comparePrimsRelationships(m, b)
        relOveralls ==
            [name \in DOMAIN relDiffs |-> computeOverallResult(relDiffs[name])]
        childrenOverall == computeOverallResult(comparePrimsChildren(m, b))
    IN  computeOverallResult(
            <<attrOverall>> \o SeqOf(relOveralls, DOMAIN relOveralls)
                \o <<childrenOverall>>)

\* C11: on valid prims the value comparePrims returns, early exits
\* included, is the aggregate of the three stage results computed in full.
C11_ShortCircuit ==
    (pc = "comparePrims" /\ BothValid) =>
        result = FullAggregate(modified, baseline)

\* comparePrims left at the attributes stage while the children differ too.
C11_Witness ==
    /\ pc = "comparePrims"
    /\ BothValid
    /\ stages = <<"attributes">>
    /\ computeOverallResult(comparePrimsChildren(modified, baseline)) = Differ
    /\ result = Differ

\* The child of prim at the given path, or the invalid prim when it has
\* none.
ChildOrInvalid(prim, path) ==
    IF path \in DOMAIN ChildrenByPath(prim) THEN ChildrenByPath(prim)[path]
    ELSE UsdPrim

\* C12: comparePrimsChildren's result has one key per child path of either
\* prim, and each value is comparePrims of the two children at that path,
\* the invalid prim standing in for a missing one.
C12_ChildrenResults ==
    pc = "comparePrimsChildren" =>
        /\ DOMAIN diffs =
              DOMAIN ChildrenByPath(modified) \cup DOMAIN ChildrenByPath(baseline)
        /\ \A path \in DOMAIN diffs :
              diffs[path] = comparePrims(ChildOrInvalid(modified, path),
                                         ChildOrInvalid(baseline, path)).result

C12_Witness ==
    /\ pc = "comparePrimsChildren"
    /\ DOMAIN ChildrenByPath(modified) \cap DOMAIN ChildrenByPath(baseline) # {}
    /\ DOMAIN ChildrenByPath(baseline) \ DOMAIN ChildrenByPath(modified) # {}
    /\ Cardinality(DOMAIN diffs) = 2

C14_InputsUnchanged ==
    [][modified' = modified /\ baseline' = baseline]_vars

C14_Witness ==
    /\ pc = "comparePrimsChildren"
    /\ modified.children # <<>>
    /\ baseline.attrs # <<>>
    /\ DOMAIN diffs = DOMAIN ChildrenByPath(modified)

\* No pair of prims is handed to comparePrims twice within one call.
NoRevisit ==
    \A i, j \in DOMAIN callLog["t1"] :
        callLog["t1"][i] = callLog["t1"][j] => i = j

\* Every nested call is on the children that the calling frame's prims have
\* at one path (the invalid prim for a missing one), and they hold fewer
\* authored items than the caller's.
DescendsIntoChildren ==
    \A i \in 2..Len(callStack["t1"]) :
        LET caller == callStack["t1"][i - 1]
            callee == callStack["t1"][i]
        IN  /\ callee.path \in DOMAIN ChildrenByPath(caller.modified)
                                 \cup DOMAIN ChildrenByPath(caller.baseline)
            /\ callee.modified = ChildOrInvalid(caller.modified, callee.path)
            /\ callee.baseline = ChildOrInvalid(caller.baseline, callee.path)
            /\ Weight(callee.modified) + Weight(callee.baseline)
                   < Weight(caller.modified) + Weight(caller.baseline)

\* C15: a call of comparePrims on two finite prim hierarchies returns a
\* result in the end, and until then every nested call of comparePrims is on
\* children of the calling frame's prims and no pair of prims is compared
\* twice.
C15_Terminates ==
    /\ <>(returned["t1"] \in DiffResults)
    /\ [](NoRevisit /\ DescendsIntoChildren)

C15_Witness ==
    /\ returned["t1"] \in DiffResults
    /\ \E i \in DOMAIN callLog["t1"] :
          Len(callLog["t1"][i][1].path) = 3
    /\ \E i \in DOMAIN callLog["t1"] : ~callLog["t1"][i][2].valid
    /\ Len(callLog["t1"]) >= 4

\* C16: comparePrims returns a DiffResult and the three set differs return
\* maps of DiffResults for every pair of prims, whatever is added, removed
\* or changed between them.
C16_Total ==
    /\ pc = "comparePrims" => result \in DiffResults
    /\ pc \in {"comparePrimsAttributes", "comparePrimsChildren"} =>
          \A key \in DOMAIN diffs : diffs[key] \in DiffResults
    /\ pc = "comparePrimsRelationships" =>
          \A name \in DOMAIN diffs :
              \A p \in DOMAIN diffs[name] : diffs[name][p] \in DiffResults

C16_Witness ==
    /\ pc = "comparePrimsChildren"
    /\ DOMAIN ChildrenByPath(modified) \ DOMAIN ChildrenByPath(baseline) # {}
    /\ DOMAIN ChildrenByPath(baseline) \ DOMAIN ChildrenByPath(modified) # {}
    /\ modified.attrs # baseline.attrs
    /\ \A key \in DOMAIN diffs : diffs[key] \in DiffResults

\* C17: when two threads run comparePrims at the same time on disjoint pairs
\* of prims, their steps interleaved in any order, each call returns what
\* comparePrims returns for its pair when it runs alone.
C17_ConcurrentCalls ==
    \A t \in Threads :
        returned[t] # None =>
            returned[t] = comparePrims(inputs[t][1], inputs[t][2]).result

C17_Witness ==
    /\ returned["t1"] = Differ
    /\ Len(callLog["t1"]) >= 2
    /\ returned["t2"] = Same
    /\ inputs["t2"][1].valid

\* Maya holds a callback of the listener for the scene message.
Registered(message) ==
    \E id \in DOMAIN callbacks :
        callbacks[id].message = message /\ callbacks[id].registered

Calls(name, n) == [i \in 1..n |-> name]

\* C18: after N InstallListener calls followed by N RemoveListener calls no
\* callback of the four scene messages is still registered with Maya, and
\* after N InstallListener calls followed by fewer RemoveListener calls all
\* four still are.
C18_LastRemoveUnregisters ==
    \A n \in 1..Len(trace) :
        /\ trace = Calls("InstallListener", n) \o Calls("RemoveListener", n)
              => \A message \in SceneMessages : ~Registered(message)
        /\ \A k \in 0..(n - 1) :
              trace = Calls("InstallListener", n) \o Calls("RemoveListener", k)
                  => \A message \in SceneMessages : Registered(message)

\* No RemoveListener call was made without an InstallListener call still
\* outstanding.
NoUnmatchedRemove ==
    \A i \in 1..Len(trace) :
        Cardinality({j \in 1..i : trace[j] = "InstallListener"})
            >= Cardinality({j \in 1..i : trace[j] = "RemoveListener"})

\* C19: as long as every RemoveListener call had an outstanding
\* InstallListener call, a registration count above 0 means that all four
\* scene callbacks are registered with Maya.
C19_InstalledMeansRegistered ==
    (NoUnmatchedRemove /\ _newOrOpenRegistrationCount > 0)
        => \A message \in SceneMessages : Registered(message)

\* C20: the registration count is never negative, whatever the sequence of
\* InstallListener and RemoveListener calls.
C20_CountNotNegative ==
    _newOrOpenRegistrationCount >= 0

\* C21: each of the four scene messages has at most one callback of the
\* listener registered with Maya at any time, and removeCallback is never
\* called with the id 0 nor twice with the same id.
C21_RegisteredOnceRemovedOnce ==
    /\ \A message \in SceneMessages :
          Cardinality({id \in DOMAIN callbacks :
                          /\ callbacks[id].message = message
                          /\ callbacks[id].registered}) <= 1
    /\ \A i \in DOMAIN removeLog : removeLog[i] # 0
    /\ \A i, j \in DOMAIN removeLog : removeLog[i] = removeLog[j] => i = j

\* The notices sent during the given scene event.
NoticesOf(event) == {k \in DOMAIN notices : notices[k].event = event}

\* C22: a kBeforeNew, kBeforeFileRead or kMayaExiting message emitted while
\* Maya is importing or referencing a file sends no notice, neither
\* UsdMayaSceneBeforeResetNotice nor UsdMayaSceneResetNotice.
C22_NoNoticeWhileImporting ==
    \A event \in DOMAIN sceneEvents :
        (/\ sceneEvents[event].message
                \in {"kBeforeNew", "kBeforeFileRead", "kMayaExiting"}
         /\ \/ sceneEvents[event].isImportingFile
            \/ sceneEvents[event].isReferencingFile)
            => NoticesOf(event) = {}

C22_Witness ==
    \E event, other \in DOMAIN sceneEvents :
        /\ sceneEvents[event].message = "kBeforeFileRead"
        /\ sceneEvents[event].isImportingFile
        /\ sceneEvents[event].invoked # <<>>
        /\ NoticesOf(event) = {}
        /\ sceneEvents[other].message = "kBeforeFileRead"
        /\ NoticesOf(other) # {}

\* C23: every UsdMayaSceneBeforeResetNotice is immediately followed by a
\* UsdMayaSceneResetNotice sent by the same invocation of the same callback,
\* and a UsdMayaSceneResetNotice that no UsdMayaSceneBeforeResetNotice of
\* its invocation precedes is sent by the kAfterNew callback.
C23_BeforeResetThenReset ==
    \A k \in DOMAIN notices :
        /\ notices[k].notice = UsdMayaSceneBeforeResetNotice =>
              /\ k + 1 \in DOMAIN notices
              /\ notices[k + 1] =
                     [notices[k] EXCEPT !.notice = UsdMayaSceneResetNotice]
        /\ (/\ notices[k].notice = UsdMayaSceneResetNotice
            /\ ~(/\ k - 1 \in DOMAIN notices
                 /\ notices[k - 1] =
                        [notices[k] EXCEPT
                            !.notice = UsdMayaSceneBeforeResetNotice])) =>
              /\ sceneEvents[notices[k].event].message = "kAfterNew"
              /\ callbacks[notices[k].callback].func = "_afterNewSceneCallback"

C23_Witness ==
    /\ Len(notices) = 3
    /\ notices[1].notice = UsdMayaSceneBeforeResetNotice
    /\ notices[2].notice = UsdMayaSceneResetNotice
    /\ notices[3].notice = UsdMayaSceneResetNotice
    /\ sceneEvents[notices[3].event].message = "kAfterNew"

\* C24: ufeObserver is non-null exactly when one observer, that one, is
\* registered with Ufe::Attributes; there is never more than one; and create
\* with an observer in place, like destroy without one, changes neither.
C24_OneObserver ==
    /\ [](/\ Cardinality(observers) <= 1
          /\ ufeObserver # 0 <=> Cardinality(observers) = 1
          /\ ufeObserver # 0 => observers = {ufeObserver})
    /\ [][ (\/ /\ observerCalls' = Append(observerCalls, "create")
               /\ ufeObserver # 0
            \/ /\ observerCalls' = Append(observerCalls, "destroy")
               /\ ufeObserver = 0)
           => UNCHANGED <<ufeObserver, observers>> ]_vars

C24_Witness ==
    /\ observerCalls = <<"create", "create", "destroy", "destroy", "create">>
    /\ ufeObserver # 0
    /\ observers = {ufeObserver}

\* C25: calls of attribute with the same non-empty name all return the
\* object that the first of them created and stored, which is the one entry
\* the cache has for the name; a call with the empty name returns null and
\* stores nothing.
C25_AttributeIdempotent ==
    /\ \A i, j \in DOMAIN attributeCalls :
          (/\ i < j
           /\ attributeCalls[i].name = attributeCalls[j].name
           /\ attributeCalls[i].name # ""
           /\ attributeCalls[i].outcome = "returned"
           /\ attributeCalls[j].outcome = "returned")
              => /\ attributeCalls[j].result = attributeCalls[i].result
                 /\ ~attributeCalls[j].cached
                 /\ fAttributes[attributeCalls[i].name]
                        = attributeCalls[i].result
    /\ \A i \in DOMAIN attributeCalls :
          attributeCalls[i].name = ""
              => /\ attributeCalls[i].result = nullptr
                 /\ ~attributeCalls[i].cached
    /\ "" \notin DOMAIN fAttributes

C25_Witness ==
    /\ Len(attributeCalls) = 3
    /\ attributeCalls[1].name = "size"
    /\ attributeCalls[1].result # nullptr
    /\ attributeCalls[2].name = ""
    /\ attributeCalls[3] = [attributeCalls[1] EXCEPT !.cached = FALSE]
    /\ DOMAIN fAttributes = {"size"}

\* C26: a call of attribute made while the prim has a valid attribute of
\* that name with a supported type returns a non-null attribute, also when
\* an earlier call was made before the attribute existed.
C26_NonNullForExisting ==
    \A i \in DOMAIN attributeCalls :
        (/\ attributeCalls[i].outcome = "returned"
         /\ attributeCalls[i].usdAttr.valid
         /\ getUfeTypeForAttribute(attributeCalls[i].usdAttr)
                \in SupportedTypes)
            => attributeCalls[i].result # nullptr

====
